---------------------------- MODULE Spec2Model ----------------------------
(***************************************************************************)
(* Sorting networks of TheCleanCoda/SortingNetworkCpp.                     *)
(*                                                                         *)
(* SortingNetwork<N, NWT> (include/sorting_network_cpp/sorting_network.hpp)*)
(* replays a fixed sequence of compare-and-swap operations over the first  *)
(* N elements behind a pointer.  The sequence itself is produced by        *)
(* sorting_network_impl.hpp, which is not among the source files; the      *)
(* six constructions are modelled from the design text (section 4.1).      *)
(* The drivers are the unit tests (test/sorting_network_tests.cpp) and the *)
(* benchmark (src/benchmark.cpp), which also overrides CompareAndSwap for  *)
(* float and supplies the Vec2iComp comparator.                            *)
(*                                                                         *)
(* A compare-and-swap is a pair <<low, high>> of zero-based positions.     *)
(* Buffers are sequences, so position p is element p + 1.                  *)
(***************************************************************************)
EXTENDS Integers, Sequences, FiniteSets, TLC

\* Largest width whose network is replayed over buffers.
MaxN == 5
\* Elements of the scalar types are 0..MaxVal.
MaxVal == 2
\* How many times in succession one buffer is handed to the same network.
MaxRuns == 2
\* Largest width of a network shared by two concurrent replays.
ParMaxN == 3

\* benchmark.cpp:102 (if constexpr (N <= 32)), tests line 69.
SizeOptimizedMax == 32

NetworkTypes ==
  {"BubbleSort", "InsertionSort", "BoseNelsonSort",
   "BatcherOddEvenMergeSort", "BitonicMergeSort", "SizeOptimizedSort"}

(***************************************************************************)
(* Sequence helpers.                                                       *)
(***************************************************************************)
SeqsOfLen(S, n) == [1..n -> S]

\* How many times x occurs in s.
Count(x, s) == Cardinality({i \in DOMAIN s : s[i] = x})

\* s and t hold the same elements, each as many times.
IsPermutationOf(s, t) ==
  /\ Len(s) = Len(t)
  /\ \A i \in DOMAIN s : Count(s[i], s) = Count(s[i], t)

(***************************************************************************)
(* 32-bit bit operations on naturals (benchmark.cpp, Vec2iComp).           *)
(***************************************************************************)
RECURSIVE BitAnd(_, _)
BitAnd(a, b) ==
  IF a = 0 \/ b = 0 THEN 0
  ELSE (a % 2) * (b % 2) + 2 * BitAnd(a \div 2, b \div 2)

RECURSIVE BitXor(_, _)
BitXor(a, b) ==
  IF a = 0 THEN b
  ELSE IF b = 0 THEN a
  ELSE ((a + b) % 2) + 2 * BitXor(a \div 2, b \div 2)

RECURSIVE BitOr(_, _)
BitOr(a, b) ==
  IF a = 0 THEN b
  ELSE IF b = 0 THEN a
  ELSE (IF a % 2 = 1 \/ b % 2 = 1 THEN 1 ELSE 0) + 2 * BitOr(a \div 2, b \div 2)

RECURSIVE Pow2(_)
Pow2(k) == IF k = 0 THEN 1 ELSE 2 * Pow2(k - 1)

Shl(x, k) == x * Pow2(k)

\* Conversion of an int to uint16_t.
U16(x) == x % 65536

\* Vec2iComp::ExpandBits: x is a uint16_t, every assignment truncates.
ExpandBits(x0) ==
  LET x1 == U16(BitAnd(x0, 1023))
      x2 == U16(BitAnd(BitXor(x1, Shl(x1, 16)), 50331903))
      x3 == U16(BitAnd(BitXor(x2, Shl(x2, 8)), 50393103))
      x4 == U16(BitAnd(BitXor(x3, Shl(x3, 4)), 51130563))
      x5 == U16(BitAnd(BitXor(x4, Shl(x4, 2)), 153391689))
  IN  x5

\* Vec2iComp::GenerateMortonCode2d; p is <<p[0], p[1]>>.
GenerateMortonCode2d(p) == BitOr(Shl(ExpandBits(p[1]), 1), ExpandBits(p[2]))

\* Points drawn by RandomElementGenerator<Vec2i>: coordinates in 0..1024.
Vec2iElems == {<<0, 0>>, <<0, 1>>, <<1024, 0>>}

\* The Morton code of every point of the model, computed once.
MortonCodes == [p \in Vec2iElems |-> GenerateMortonCode2d(p)]

(***************************************************************************)
(* Element types and comparators.                                          *)
(***************************************************************************)
Scalars == 0..MaxVal

\* Two scalar values, enough to tell every order of a pair apart.
ZeroOne == {0, 1}

ComparatorsOf(ty) == IF ty = "Vec2i" THEN {"Vec2iComp"} ELSE {"less", "greater"}

\* std::less, std::greater and Vec2iComp::operator().
Comp(c, a, b) ==
  CASE c = "less" -> a < b
    [] c = "greater" -> a > b
    [] c = "Vec2iComp" -> MortonCodes[a] < MortonCodes[b]

\* IsOrdered of the tests: no element precedes its predecessor.
IsOrdered(s, c) == \A i \in 1..(Len(s) - 1) : ~Comp(c, s[i + 1], s[i])

(***************************************************************************)
(* Network construction (sorting_network_impl.hpp, modelled from the       *)
(* design text).                                                           *)
(***************************************************************************)
\* for i in [0, N), for j in [0, N-1-i): emit (j, j+1).  One pass of the
\* inner loop, then the passes that follow it.
BubblePassLong(n, i) == [k \in 1..(n - i) |-> <<k - 1, k>>]

BubblePass(n, i) == [k \in 1..(n - 1 - i) |-> <<k - 1, k>>]

RECURSIVE BubbleLoop(_, _)
BubbleLoop(n, i) ==
  IF i >= n THEN <<>> ELSE BubblePass(n, i) \o BubbleLoop(n, i + 1)

BubbleSort(n) == BubbleLoop(n, 0)

\* for i in [1, N), walk j from i down to 1, emitting (j-1, j).
InsertionWalk(i) == [k \in 1..i |-> <<i - k, i - k + 1>>]

RECURSIVE InsertionLoop(_, _)
InsertionLoop(n, i) ==
  IF i >= n THEN <<>> ELSE InsertionWalk(i) \o InsertionLoop(n, i + 1)

InsertionSort(n) == InsertionLoop(n, 1)

\* Bose-Nelson: merge of the sorted blocks [i, i+x) and [j, j+y).
RECURSIVE PBracket(_, _, _, _)
PBracket(i, x, j, y) ==
  IF x = 1 /\ y = 1 THEN <<(<<i, j>>)>>
  ELSE IF x = 1 /\ y = 2 THEN <<(<<i, j + 1>>), (<<i, j>>)>>
  ELSE IF x = 2 /\ y = 1 THEN <<(<<i, j>>), (<<i + 1, j>>)>>
  ELSE LET a == x \div 2
           b == IF x % 2 = 1 THEN y \div 2 ELSE (y + 1) \div 2
       IN  PBracket(i, a, j, b)
           \o PBracket(i + a, x - a, j + b, y - b)
           \o PBracket(i + a, x - a, j, b)

\* Bose-Nelson: sort the block [i, i+x): both halves, then their merge.
RECURSIVE PStar(_, _)
PStar(i, x) ==
  IF x <= 1 THEN <<>>
  ELSE LET a == x \div 2
       IN  PStar(i, a) \o PStar(i + a, x - a) \o PBracket(i, a, i + a, x - a)

BoseNelsonSort(n) == PStar(0, n)

IsPowerOfTwo(n) == n > 0 /\ BitAnd(n, n - 1) = 0

\* Batcher's odd-even merge of [lo, hi] (inclusive) at stride r.
RECURSIVE OddEvenMerge(_, _, _)
OddEvenMerge(lo, hi, r) ==
  LET step == 2 * r
  IN  IF step < hi - lo
      THEN OddEvenMerge(lo, hi, step)
           \o OddEvenMerge(lo + r, hi, step)
           \o [k \in 1..((hi - lo - r) \div step) |->
                 <<lo + r + (k - 1) * step, lo + r + (k - 1) * step + r>>]
      ELSE <<(<<lo, lo + r>>)>>

\* Batcher: sort both halves of [lo, hi], then merge them.
RECURSIVE OddEvenMergeSortRange(_, _)
OddEvenMergeSortRange(lo, hi) ==
  IF hi - lo < 1 THEN <<>>
  ELSE LET mid == lo + (hi - lo) \div 2
       IN  OddEvenMergeSortRange(lo, mid)
           \o OddEvenMergeSortRange(mid + 1, hi)
           \o OddEvenMerge(lo, hi, 1)

BatcherOddEvenMergeSort(n) == OddEvenMergeSortRange(0, n - 1)

\* The pairs of ps whose positions all lie inside a buffer of width n.
Within(ps, n) == SelectSeq(ps, LAMBDA p : p[2] < n)

\* Bitonic half-cleaners: one stage per stride len/2, len/4, ..., 1.
RECURSIVE BitonicHalfCleaner(_, _)
BitonicHalfCleaner(lo, len) ==
  IF len <= 1 THEN <<>>
  ELSE LET h == len \div 2
       IN  [k \in 1..h |-> <<lo + k - 1, lo + k - 1 + h>>]
           \o BitonicHalfCleaner(lo, h)
           \o BitonicHalfCleaner(lo + h, h)

\* A bitonic merge whose first stage pairs position i with i + len/2, as a
\* half-cleaner does, although both halves ascend.
BitonicMergeUnflipped(lo, len) == BitonicHalfCleaner(lo, len)

\* Bitonic merge of two sorted halves: the second half is taken in the
\* opposite direction (position i against len-1-i), then half-cleaners.
BitonicMerge(lo, len) ==
  LET h == len \div 2
  IN  [k \in 1..h |-> <<lo + k - 1, lo + len - k>>]
      \o BitonicHalfCleaner(lo, h)
      \o BitonicHalfCleaner(lo + h, h)

RECURSIVE BitonicSortRange(_, _)
BitonicSortRange(lo, len) ==
  IF len <= 1 THEN <<>>
  ELSE LET h == len \div 2
       IN  BitonicSortRange(lo, h)
           \o BitonicSortRange(lo + h, h)
           \o BitonicMerge(lo, len)

RECURSIVE NextPowerOfTwo(_, _)
NextPowerOfTwo(n, p) == IF p >= n THEN p ELSE NextPowerOfTwo(n, 2 * p)

\* The tests build BitonicMergeSort for every N in 1..16: the network of the
\* enclosing power of two, less the pairs that reach beyond N.
BitonicMergeSort(n) == Within(BitonicSortRange(0, NextPowerOfTwo(n, 1)), n)

\* The static per-N tables of the size-optimised networks, as far as modelled.
SizeOptimizedTable ==
  <<
    <<>>,
    <<(<<0, 1>>)>>,
    <<(<<0, 2>>), (<<0, 1>>), (<<1, 2>>)>>,
    <<(<<0, 2>>), (<<1, 3>>), (<<0, 1>>), (<<2, 3>>), (<<1, 2>>)>>,
    <<(<<0, 3>>), (<<1, 4>>), (<<0, 2>>), (<<1, 3>>), (<<0, 1>>), (<<2, 4>>),
      (<<1, 2>>), (<<3, 4>>), (<<2, 3>>)>>,
    <<(<<0, 5>>), (<<1, 3>>), (<<2, 4>>), (<<1, 2>>), (<<3, 4>>), (<<0, 3>>),
      (<<2, 5>>), (<<0, 1>>), (<<2, 3>>), (<<4, 5>>), (<<1, 2>>), (<<3, 4>>)>>
  >>

SizeOptimizedSort(n) == SizeOptimizedTable[n]

(***************************************************************************)
(* SortingNetwork<N, NWT>.                                                 *)
(***************************************************************************)
\* static_assert(N > 0), with the off-by-one that admits width 0.
StaticAssertWidthLoose(n) == n >= 0

\* static_assert(N > 0).
StaticAssertWidth(n) == n > 0

\* The (N, NWT) for which the implementation header defines a network: the
\* benchmark guards Batcher by NIsPowerOfTwo and SizeOptimized by N <= 32 and
\* instantiates the others unguarded; the tests instantiate Bitonic for
\* every N in 1..16 and Batcher only for 1, 2, 4, 8, 16.
ImplDefined(n, nwt) ==
  CASE nwt = "BatcherOddEvenMergeSort" -> IsPowerOfTwo(n)
    [] nwt = "SizeOptimizedSort" -> n <= SizeOptimizedMax
    [] OTHER -> TRUE

Supported(n, nwt) == StaticAssertWidth(n) /\ ImplDefined(n, nwt)

\* details::SortingNetworkImpl<N, NWT>: the sequence of compare-and-swaps.
SortingNetworkImpl(n, nwt) ==
  CASE nwt = "BubbleSort" -> BubbleSort(n)
    [] nwt = "InsertionSort" -> InsertionSort(n)
    [] nwt = "BoseNelsonSort" -> BoseNelsonSort(n)
    [] nwt = "BatcherOddEvenMergeSort" -> BatcherOddEvenMergeSort(n)
    [] nwt = "BitonicMergeSort" -> BitonicMergeSort(n)
    [] nwt = "SizeOptimizedSort" -> SizeOptimizedSort(n)

\* operator()(T*, ComparatorT) with the guard off by one: width 2 is skipped.
ReplayedSkippingTwo(n, nwt) == IF n > 2 THEN SortingNetworkImpl(n, nwt) ELSE <<>>

\* operator()(T*, ComparatorT) returning before the last compare-and-swap.
ReplayedWithoutLast(n, nwt) ==
  IF n > 1
  THEN SubSeq(SortingNetworkImpl(n, nwt), 1, Len(SortingNetworkImpl(n, nwt)) - 1)
  ELSE <<>>

\* operator()(T*, ComparatorT): if constexpr (N > 1) run the implementation.
Replayed(n, nwt) == IF n > 1 THEN SortingNetworkImpl(n, nwt) ELSE <<>>

\* The default CompareAndSwap swapping unless a precedes b (so also on ties).
CompareAndSwapEager(a, b, c) ==
  IF ~Comp(c, a, b) THEN <<b, a, TRUE>> ELSE <<a, b, FALSE>>

\* The default CompareAndSwap<T, C>: swap when b precedes a.  The result is
\* <<a, b, swapped>>.
CompareAndSwap(a, b, c) ==
  IF Comp(c, b, a) THEN <<b, a, TRUE>> ELSE <<a, b, FALSE>>

\* A branch-free float override that writes the minimum to both references.
CompareAndSwapFloatMin(a, b, c) ==
  IF a > b THEN <<b, b, TRUE>> ELSE <<a, b, FALSE>>

\* benchmark.cpp CompareAndSwap<float, C>: if (a > b) std::swap(a, b); comp
\* is not consulted.
CompareAndSwapFloat(a, b, c) ==
  IF a > b THEN <<b, a, TRUE>> ELSE <<a, b, FALSE>>

\* One compare-and-swap of buffer s at pair p, with the operation cas.
Exchange(s, p, r) == [s EXCEPT ![p[1] + 1] = r[1], ![p[2] + 1] = r[2]]

\* The whole replay of a network over s with the default compare-and-swap,
\* from its pair k on.
RECURSIVE ReplayFrom(_, _, _, _)
ReplayFrom(net, k, s, c) ==
  IF k > Len(net) THEN s
  ELSE LET p == net[k]
           r == CompareAndSwap(s[p[1] + 1], s[p[2] + 1], c)
       IN  ReplayFrom(net, k + 1, Exchange(s, p, r), c)

VARIABLES
  cfg,       \* the program: executions, float override, buffer lengths
  N,         \* template argument N of the instantiated SortingNetwork
  NWT,       \* template argument NWT
  status,    \* "none", "built" or "DomainError" (the instantiation is rejected)
  network,   \* the compare-and-swaps the built network replays
  elem,      \* element type of the buffers
  comp,      \* comparator passed to operator()
  buffer,    \* per execution: the container handed to operator()
  initial,   \* per execution: the container as it was at the call
  pos,       \* per execution: compare-and-swaps replayed so far
  pc,        \* per execution: "idle", "running" or "done"
  swaps,     \* per execution: compare-and-swaps of this call that swapped
  runs,      \* per execution: calls made on this buffer
  ub         \* an access outside a container has happened

vars ==
  <<cfg, N, NWT, status, network, elem, comp, buffer, initial, pos, pc, swaps,
    runs, ub>>

\* The unit tests: one execution, int32_t, containers of exactly N elements.
TestProgram ==
  [execs |-> {1}, specialized |-> FALSE, exact |-> TRUE, permuted |-> FALSE,
   types |-> {"int32_t"}, scalars |-> Scalars,
   widths |-> (0..MaxN) \cup {SizeOptimizedMax + 1}]

\* The benchmark: it specialises CompareAndSwap<float, C>.
BenchmarkProgram ==
  [execs |-> {1}, specialized |-> TRUE, exact |-> TRUE, permuted |-> FALSE,
   types |-> {"int32_t", "float"}, scalars |-> Scalars, widths |-> 1..MaxN]

\* A caller handing operator()(ContainerT&, ...) containers of any length.
AnyLengthProgram ==
  [execs |-> {1}, specialized |-> FALSE, exact |-> FALSE, permuted |-> FALSE,
   types |-> {"int32_t"}, scalars |-> Scalars, widths |-> 1..MaxN]

\* Two executions replaying one network over two arrays: the loop of
\* BenchmarkSortingNet with its iterations run concurrently.
ParallelProgram ==
  [execs |-> {1, 2}, specialized |-> FALSE, exact |-> TRUE, permuted |-> FALSE,
   types |-> {"int32_t"}, scalars |-> ZeroOne, widths |-> 1..ParMaxN]

\* Two executions of one network over two arrangements of the same elements,
\* on the benchmark's Vec2i (with Vec2iComp) and on scalars.
PermutedProgram ==
  [execs |-> {1, 2}, specialized |-> FALSE, exact |-> TRUE, permuted |-> TRUE,
   types |-> {"int32_t", "Vec2i"}, scalars |-> ZeroOne, widths |-> 1..ParMaxN]

InitOf(program) ==
  /\ cfg = program
  /\ N = 0
  /\ NWT = "BoseNelsonSort"
  /\ status = "none"
  /\ network = <<>>
  /\ elem = "int32_t"
  /\ comp = "less"
  /\ buffer = [e \in program.execs |-> <<>>]
  /\ initial = [e \in program.execs |-> <<>>]
  /\ pos = [e \in program.execs |-> 0]
  /\ pc = [e \in program.execs |-> "idle"]
  /\ swaps = [e \in program.execs |-> 0]
  /\ runs = [e \in program.execs |-> 0]
  /\ ub = FALSE

Init == InitOf(TestProgram)

\* Instantiating SortingNetwork<n, nwt>.
Build(n, nwt) ==
  /\ status = "none"
  /\ N' = n
  /\ NWT' = nwt
  /\ IF Supported(n, nwt)
     THEN status' = "built" /\ network' = Replayed(n, nwt)
     ELSE status' = "DomainError" /\ network' = <<>>
  /\ UNCHANGED <<cfg, elem, comp, buffer, initial, pos, pc, swaps, runs, ub>>

ElemsOf(ty) == IF ty = "Vec2i" THEN Vec2iElems ELSE cfg.scalars

ContainerLengths == IF cfg.exact THEN {N} ELSE 0..MaxN

Containers(ty) == UNION {SeqsOfLen(ElemsOf(ty), l) : l \in ContainerLengths}

\* operator()(ContainerT&, ComparatorT) is entered by every execution:
\* the pointer std::data(container) is passed on, the size is not.
Apply(ty, c, bufs) ==
  /\ cfg.permuted => \A e \in cfg.execs : IsPermutationOf(bufs[e], bufs[1])
  /\ elem' = ty
  /\ comp' = c
  /\ buffer' = bufs
  /\ initial' = bufs
  /\ pos' = [e \in cfg.execs |-> 0]
  /\ pc' = [e \in cfg.execs |-> "running"]
  /\ swaps' = [e \in cfg.execs |-> 0]
  /\ runs' = [e \in cfg.execs |-> 1]
  /\ UNCHANGED <<cfg, N, NWT, status, network, ub>>

UsesFloatOverride == cfg.specialized /\ elem = "float"

\* The array an execution's compare-and-swaps write when all executions
\* shared one scratch array.
TargetShared(e) == 1

\* The array an execution's compare-and-swaps write: the pointer it was given.
Target(e) == e

\* One compare-and-swap of execution e, both positions inside its container.
Step(e) ==
  /\ pc[e] = "running"
  /\ pos[e] < Len(network)
  /\ LET p == network[pos[e] + 1]
         t == Target(e)
     IN  /\ p[1] < Len(buffer[t]) /\ p[2] < Len(buffer[t])
         /\ LET a == buffer[t][p[1] + 1]
                b == buffer[t][p[2] + 1]
                r == IF UsesFloatOverride THEN CompareAndSwapFloat(a, b, comp)
                                          ELSE CompareAndSwap(a, b, comp)
            IN  /\ buffer' = [buffer EXCEPT ![t] = Exchange(@, p, r)]
                /\ swaps' = [swaps EXCEPT ![e] = IF r[3] THEN @ + 1 ELSE @]
  /\ pos' = [pos EXCEPT ![e] = @ + 1]
  /\ UNCHANGED <<cfg, N, NWT, status, network, elem, comp, initial, pc, runs, ub>>

\* One compare-and-swap of execution e that reaches past the end of its
\* container: undefined behaviour.  A read past the end yields any value, a
\* write past the end lands outside the container.
StepOutOfBounds(e) ==
  /\ pc[e] = "running"
  /\ pos[e] < Len(network)
  /\ LET p == network[pos[e] + 1]
         l == Len(buffer[e])
     IN  /\ p[2] >= l
         /\ \E v \in ElemsOf(elem), w \in ElemsOf(elem) :
              LET a == IF p[1] < l THEN buffer[e][p[1] + 1] ELSE w
                  r == CompareAndSwap(a, v, comp)
              IN  /\ buffer' = IF p[1] < l
                                THEN [buffer EXCEPT ![e][p[1] + 1] = r[1]]
                                ELSE buffer
                  /\ swaps' = [swaps EXCEPT ![e] = IF r[3] THEN @ + 1 ELSE @]
  /\ pos' = [pos EXCEPT ![e] = @ + 1]
  /\ ub' = TRUE
  /\ UNCHANGED <<cfg, N, NWT, status, network, elem, comp, initial, pc, runs>>

\* operator() returns once every compare-and-swap has been replayed.
Return(e) ==
  /\ pc[e] = "running"
  /\ pos[e] = Len(network)
  /\ pc' = [pc EXCEPT ![e] = "done"]
  /\ UNCHANGED <<cfg, N, NWT, status, network, elem, comp, buffer, initial, pos,
                 swaps, runs, ub>>

\* The same network is applied once more to the buffer it has just returned.
ApplyAgain(e) ==
  /\ pc[e] = "done"
  /\ runs[e] < MaxRuns
  /\ initial' = [initial EXCEPT ![e] = buffer[e]]
  /\ pos' = [pos EXCEPT ![e] = 0]
  /\ pc' = [pc EXCEPT ![e] = "running"]
  /\ swaps' = [swaps EXCEPT ![e] = 0]
  /\ runs' = [runs EXCEPT ![e] = @ + 1]
  /\ UNCHANGED <<cfg, N, NWT, status, network, elem, comp, buffer, ub>>

DoBuild == \E n \in cfg.widths, nwt \in NetworkTypes : Build(n, nwt)

\* Only networks of width at most MaxN are replayed.
DoApply ==
  /\ status = "built"
  /\ N <= MaxN
  /\ \A e \in cfg.execs : pc[e] = "idle"
  /\ \E ty \in cfg.types :
       \E c \in ComparatorsOf(ty), bufs \in [cfg.execs -> Containers(ty)] :
         Apply(ty, c, bufs)

DoStep == \E e \in cfg.execs : Step(e)

DoStepOutOfBounds == \E e \in cfg.execs : StepOutOfBounds(e)

DoReturn == \E e \in cfg.execs : Return(e)

DoApplyAgain == \E e \in cfg.execs : ApplyAgain(e)

Next == DoBuild \/ DoApply \/ DoStep \/ DoReturn \/ DoApplyAgain

Spec == Init /\ [][Next]_vars

NextOnce == DoBuild \/ DoApply \/ DoStep \/ DoReturn

InitBench == InitOf(BenchmarkProgram)

SpecBench == InitBench /\ [][NextOnce]_vars

InitAnyLength == InitOf(AnyLengthProgram)

NextAnyLength == DoBuild \/ DoApply \/ DoStep \/ DoStepOutOfBounds \/ DoReturn

SpecAnyLength == InitAnyLength /\ [][NextAnyLength]_vars

InitPar == InitOf(ParallelProgram)

SpecPar == InitPar /\ [][NextOnce]_vars

InitPermuted == InitOf(PermutedProgram)

SpecPermuted == InitPermuted /\ [][NextOnce]_vars

(***************************************************************************)
(* Properties.                                                             *)
(***************************************************************************)
Execs == DOMAIN pc

\* C1.  Sort correctness: once operator() has returned from replaying the
\* network of a supported (N, NWT) over a container of N elements, no
\* element of the container precedes its predecessor under the comparator
\* that was passed.
SortCorrectness ==
  \A e \in Execs :
    (pc[e] = "done" /\ Len(initial[e]) = N) => IsOrdered(buffer[e], comp)

\* A strictly descending container of at least three elements was sorted.
SortCorrectnessWitness ==
  /\ pc[1] = "done"
  /\ N >= 3
  /\ comp = "less"
  /\ \A i \in 1..(N - 1) : initial[1][i] > initial[1][i + 1]
  /\ \A i \in 1..(N - 1) : buffer[1][i] < buffer[1][i + 1]

\* A power of two is a positive number without an odd divisor above 1.
PowerOfTwo(n) == n >= 1 /\ \A d \in 2..n : (n % d = 0 => d % 2 = 0)

IdempotentOnSorted ==
  \A e \in Execs :
    /\ (pc[e] # "idle" /\ Len(initial[e]) = N /\ IsOrdered(initial[e], comp))
         => (buffer[e] = initial[e] /\ swaps[e] = 0)
    /\ runs[e] >= 2 => (buffer[e] = initial[e] /\ swaps[e] = 0)

\* A second application has returned on a container of at least three
\* elements, two of them equal.
IdempotentOnSortedWitness ==
  /\ pc[1] = "done"
  /\ runs[1] = 2
  /\ N >= 3
  /\ buffer[1][1] = buffer[1][2]
  /\ buffer[1][2] # buffer[1][3]

\* C9.  Pair well-formedness: every pair <<low, high>> of a built network
\* has 0 <= low < high < N; the bubble network is (j, j+1) for i in [0, N),
\* j in [0, N-1-i); the insertion network is (j-1, j) for i in [1, N), j from
\* i down to 1; the network of width 1 is empty.
PairsWellFormed ==
  status = "built" =>
    /\ \A k \in 1..Len(network) :
         0 <= network[k][1] /\ network[k][1] < network[k][2] /\ network[k][2] < N
    /\ NWT = "BubbleSort" =>
         /\ Len(network) = (N * (N - 1)) \div 2
         /\ \A i \in 0..(N - 1) : \A j \in 0..(N - 2 - i) :
              network[i * N - ((i * (i + 1)) \div 2) + j + 1] = <<j, j + 1>>
    /\ NWT = "InsertionSort" =>
         /\ Len(network) = (N * (N - 1)) \div 2
         /\ \A i \in 1..(N - 1) : \A j \in 1..i :
              network[((i * (i - 1)) \div 2) + (i - j) + 1] = <<j - 1, j>>
    /\ N = 1 => network = <<>>

\* A bubble network of width at least three has been built.
PairsWellFormedWitness ==
  /\ status = "built"
  /\ NWT = "BubbleSort"
  /\ N >= 3
  /\ Len(network) >= 3

\* C3 as stated.  Length check: operator() on a container whose length
\* differs from N is rejected: no replay runs on it, it stays as it was, and
\* there is no access outside it.
LengthMismatchRejected ==
  \A e \in Execs :
    Len(initial[e]) # N => (pc[e] = "idle" /\ buffer[e] = initial[e] /\ ~ub)

\* C4 as stated.  Substitutability: with the float override in place the
\* container returned equals the one the default compare-and-swap yields
\* from the same container under the same comparator.
SpecializedSubstitutable ==
  \A e \in Execs :
    (pc[e] = "done" /\ elem = "float")
      => buffer[e] = ReplayFrom(network, 1, initial[e], comp)

\* Both executions have returned, from arrangements of the same elements.
BothReturned ==
  /\ \A e \in Execs : pc[e] = "done"
  /\ IsPermutationOf(initial[1], initial[2])

\* C7 as stated.  Order-invariance: two arrangements of the same multiset
\* of elements end as containers that are equal position by position.
OrderInvarianceAsStated == BothReturned => buffer[1] = buffer[2]

\* The comparator ties no two distinct elements of the type in use.
TiesOnlyEqual ==
  \A a \in ElemsOf(elem), b \in ElemsOf(elem) :
    (~Comp(comp, a, b) /\ ~Comp(comp, b, a)) => a = b

\* C7 as amended.  Two arrangements of the same multiset of elements end as
\* containers that are equivalent position by position under the comparator
\* (neither element precedes the other), and equal position by position
\* when the comparator ties no two distinct elements.
OrderInvariance ==
  BothReturned =>
    /\ \A i \in 1..N :
         ~Comp(comp, buffer[1][i], buffer[2][i]) /\ ~Comp(comp, buffer[2][i], buffer[1][i])
    /\ TiesOnlyEqual => buffer[1] = buffer[2]

\* Two different arrangements of three Vec2i, two of them with the same
\* Morton code, have both been sorted.
OrderInvarianceWitness ==
  /\ BothReturned
  /\ elem = "Vec2i"
  /\ N = 3
  /\ initial[1] # initial[2]
  /\ buffer[1] # initial[1]
  /\ \E i \in 1..N, j \in 1..N :
       /\ initial[1][i] # initial[1][j]
       /\ MortonCodes[initial[1][i]] = MortonCodes[initial[1][j]]

\* The network is not modified while it is built.
NetworkImmutable == status = "built" => network' = network

\* An execution that makes no step finds its container as it left it.
OnlyOwnBuffer ==
  \A e \in Execs : (pc[e] = "running" /\ pos'[e] = pos[e]) => buffer'[e] = buffer[e]

\* Each returned container is what one sequential replay makes of it.
AsSolitaryReplay ==
  \A e \in Execs :
    pc[e] = "done" => buffer[e] = ReplayFrom(network, 1, initial[e], comp)

\* C8.  Parallel safety: with the compare-and-swaps of two executions of
\* one network interleaved in any order, the network is never modified, no
\* execution writes the other's container, and each container ends as a
\* solitary sequential replay would leave it.
ParallelSafety ==
  /\ [][NetworkImmutable]_vars
  /\ [][OnlyOwnBuffer]_vars
  /\ []AsSolitaryReplay

\* Both executions are midway through the network, at different pairs, and
\* both have swapped.
ParallelSafetyWitness ==
  /\ pc[1] = "running" /\ pc[2] = "running"
  /\ 0 < pos[1] /\ pos[1] < pos[2] /\ pos[2] < Len(network)
  /\ swaps[1] > 0 /\ swaps[2] > 0
  /\ buffer[1] # buffer[2]

\* A step of a running execution leaves its container alone or exchanges
\* the two elements of the pair it is at, and nothing else.
StepFrame ==
  \A e \in Execs :
    (pc[e] = "running" /\ buffer'[e] # buffer[e]) =>
      /\ pos[e] < Len(network)
      /\ pos'[e] = pos[e] + 1
      /\ LET low == network[pos[e] + 1][1] + 1
             high == network[pos[e] + 1][2] + 1
         IN  buffer'[e] = [buffer[e] EXCEPT ![low] = buffer[e][high],
                                            ![high] = buffer[e][low]]

\* The container holds the elements it held at the call.
SameElements == \A e \in Execs : IsPermutationOf(buffer[e], initial[e])

\* C10.  Permutation preservation: every compare-and-swap, the default one
\* and the float override alike, leaves the container unchanged or exchanges
\* exactly the two elements of its pair; so the container always holds the
\* multiset of elements it held at the call.
PermutationPreserved == [][StepFrame]_vars /\ []SameElements

\* The float override has swapped, and the replay has returned.
PermutationPreservedWitness ==
  /\ pc[1] = "done"
  /\ elem = "float"
  /\ N >= 3
  /\ swaps[1] >= 2
  /\ buffer[1] # initial[1]
=============================================================================
